---- MODULE Spec2Model ----
(***************************************************************************)
(* Model of rack-mount-generator.js: the form, the preview group built by  *)
(* generateMountGeometry / generateWideBracket, and the handlers that      *)
(* rebuild it.                                                             *)
(*                                                                         *)
(* Lengths are integers in units of 1/8000 mm.  Every constant of the code *)
(* (225.0, 44.45, 15.875, 6.35, 22.225, 38.1, 3.175, 1.6, 50.8 ...) and    *)
(* every form value that is a multiple of 0.001 mm is a whole number of    *)
(* units, and so are the halves and quarters the code takes of them, so    *)
(* the arithmetic below is exact where the code's is (up to floating-point *)
(* rounding, which is not modelled).                                       *)
(***************************************************************************)
EXTENDS Integers, Sequences, FiniteSets, TLC

VARIABLES
  defaults,        \* the values and ticks the markup gives the fields
  form,            \* the values and ticks of the form's fields
  mountMesh,       \* the preview group
  scene,           \* the children of the THREE.Scene, in the order they were added
  wideModeIndicator, \* the display the script has given the wide-mode indicator
  loaded,          \* the window 'load' event has been handled
  partsValue,      \* the parts count shown among the statistics
  statusMessage,   \* what the status line shows
  fileList,        \* which file list the page holds
  filesContainer,  \* display of the container of the file list
  timers,          \* pending setTimeout callbacks
  requests,        \* history: the export requests made so far
  downloads,       \* history: the files of the export requests, in order
  lastExport,      \* the last file written, with the preview of that moment
  probe            \* history: one earlier generation request and its result

vars == <<defaults, form, mountMesh, scene, wideModeIndicator, loaded, partsValue, statusMessage,
          fileList, filesContainer,
          timers, requests, downloads, lastExport, probe>>

pageVars == <<statusMessage, fileList, filesContainer>>

exportVars == <<timers, requests, downloads, lastExport>>

UnitsPerMm == 8 * 1000

Mm(x) == x * UnitsPerMm

\* thousandths of a millimetre
Milli(x) == x * (UnitsPerMm \div 1000)

\* hundredths of a millimetre
Centi(x) == x * (UnitsPerMm \div 100)

(***************************************************************************)
(* Bounds of the model.                                                    *)
(***************************************************************************)
\* device heights are taken up to MaxUnits multiples of the per-unit heights
MaxUnits == 1

(***************************************************************************)
(* Constants of the code.                                                  *)
(***************************************************************************)
RACK_HALF_WIDTH == Mm(225)

FULL_RACK_WIDTH == RACK_HALF_WIDTH * 2

RACK_UNIT_HEIGHT == Centi(4445)

WIDE_DEVICE_HEIGHT_PER_U == Mm(25)

SINGLE_DEVICE_HEIGHT_PER_U == Mm(35)

EAR_WIDTH == Milli(15875)

\* the literal of the comparison in isWideDeviceMode
WIDE_THRESHOLD == Mm(200)

holeRadius == Milli(3175)

m3HoleRadius == Centi(160)

flangeDepth == Centi(5080)

backHoleOffset == Mm(15)

\* offsets of the three rack holes inside one rack unit
EarHoleOffsets == <<Centi(635), Milli(22225), Centi(3810)>>

(***************************************************************************)
(* Arithmetic of the code.                                                 *)
(***************************************************************************)
Max(a, b) == IF a >= b THEN a ELSE b

Min(a, b) == IF a <= b THEN a ELSE b

\* a variant that rounds down instead of up
CeilDiv_Floor(a, b) == a \div b

\* Math.ceil(a / b) for b > 0
CeilDiv(a, b) == -((-a) \div b)

\* Math.floor(a / b) for b > 0
FloorDiv(a, b) == a \div b

\* x / 2 (exact on the values of the model)
Half(x) == x \div 2

\* a variant that forgets to halve the margin
Centered_NoHalf(total, size) == total - size

\* (total - size) / 2: the offset that centres size inside total
Centered(total, size) == Half(total - size)

(***************************************************************************)
(* Primitives placed in a group.  A box is a BoxGeometry of the given size *)
(* centred at pos.  An extrusion is an ExtrudeGeometry of a shape (outline *)
(* plus hole circles <<cx, cy, r>>) of the given depth, rotated by rot and *)
(* then moved to pos.  kind and name tell which statement of the code      *)
(* added the mesh to the group.                                            *)
(***************************************************************************)
Box(kind, name, w, h, d, x, y, z) ==
  [kind |-> kind, name |-> name, prim |-> "box", size |-> <<w, h, d>>, pos |-> <<x, y, z>>,
   rot |-> "none", outline |-> <<>>, holes |-> <<>>]

Extrude(kind, name, outline, holes, depth, rot, x, y, z) ==
  [kind |-> kind, name |-> name, prim |-> "extrude", size |-> <<0, 0, depth>>,
   pos |-> <<x, y, z>>, rot |-> rot, outline |-> outline, holes |-> holes]

\* the outline drawn by moveTo(x0,y0), lineTo(x1,y0), lineTo(x1,y1), lineTo(x0,y1)
RectOutline(x0, y0, x1, y1) == <<<<x0, y0>>, <<x1, y0>>, <<x1, y1>>, <<x0, y1>>>>

\* a variant that adds the mesh whatever the guard says
When_Unguarded(cond, f) == <<f>>

\* a sequence holding f when cond holds, and nothing otherwise
When(cond, f) == IF cond THEN <<f>> ELSE <<>>

\* a variant whose comparison includes the threshold
isWideDeviceMode_Inclusive(width, tolerance) ==
  LET openingWidth == width + 2 * tolerance
  IN  openingWidth >= WIDE_THRESHOLD

\* isWideDeviceMode(width, tolerance)
isWideDeviceMode(width, tolerance) ==
  LET openingWidth == width + 2 * tolerance
  IN  openingWidth > WIDE_THRESHOLD

(***************************************************************************)
(* generateWideBracket.  doc is the document the function reads isBlank    *)
(* and addRackHoles from.                                                  *)
(***************************************************************************)
\* a variant whose unit base starts one rack unit up
EarHolePositions_UnitUp(rackUnits) ==
  [i \in 1..(3 * rackUnits) |->
     (((i - 1) \div 3) + 1) * RACK_UNIT_HEIGHT + EarHoleOffsets[((i - 1) % 3) + 1]]

\* holePositions of the rack ear: three per rack unit
EarHolePositions(rackUnits) ==
  [i \in 1..(3 * rackUnits) |->
     ((i - 1) \div 3) * RACK_UNIT_HEIGHT + EarHoleOffsets[((i - 1) % 3) + 1]]

\* a variant that extrudes the hole-bearing shape whatever addRackHoles says
WideEar_AlwaysHoles(earSide, addRackHoles, rackUnits, faceplateWidth, faceplateHeight, faceplateThickness) ==
  LET holeX == IF earSide = "left" THEN -Half(EAR_WIDTH)
               ELSE faceplateWidth + Half(EAR_WIDTH)
      earXStart == IF earSide = "left" THEN -EAR_WIDTH ELSE faceplateWidth
      earXEnd == IF earSide = "left" THEN 0 ELSE faceplateWidth + EAR_WIDTH
      holePositions == EarHolePositions(rackUnits)
  IN  <<Extrude("ear", "ear",
                RectOutline(earXStart, 0, earXEnd, faceplateHeight),
                [i \in DOMAIN holePositions |-> <<holeX, holePositions[i], holeRadius>>],
                faceplateThickness, "none", 0, 0, -faceplateThickness)>>

\* the rack ear added to one half: an extruded shape with holes, or a plain box
WideEar(earSide, addRackHoles, rackUnits, faceplateWidth, faceplateHeight, faceplateThickness) ==
  IF addRackHoles
  THEN LET holeX == IF earSide = "left" THEN -Half(EAR_WIDTH)
                    ELSE faceplateWidth + Half(EAR_WIDTH)
           earXStart == IF earSide = "left" THEN -EAR_WIDTH ELSE faceplateWidth
           earXEnd == IF earSide = "left" THEN 0 ELSE faceplateWidth + EAR_WIDTH
           holePositions == EarHolePositions(rackUnits)
       IN  <<Extrude("ear", "ear",
                   RectOutline(earXStart, 0, earXEnd, faceplateHeight),
                   [i \in DOMAIN holePositions |-> <<holeX, holePositions[i], holeRadius>>],
                   faceplateThickness, "none", 0, 0, -faceplateThickness)>>
  ELSE <<Box("ear", "ear", EAR_WIDTH, faceplateHeight, faceplateThickness,
           IF earSide = "left" THEN -Half(EAR_WIDTH)
           ELSE faceplateWidth + Half(EAR_WIDTH),
           Half(faceplateHeight), -Half(faceplateThickness))>>

\* hole Y positions of a top or bottom joining flange of height fHeight
WideFlangeHoleYPositions(fHeight) ==
  IF fHeight >= Mm(6)
  THEN IF fHeight >= Mm(20)
       THEN LET numHoles == Max(1, FloorDiv(fHeight, Mm(20)))
                edgeMargin == Mm(5)
                usableHeight == fHeight - 2 * edgeMargin
            IN  [i \in 1..numHoles |->
                   edgeMargin + (IF numHoles > 1
                                 THEN ((i - 1) * usableHeight) \div (numHoles - 1)
                                 ELSE Half(usableHeight))]
       ELSE <<Half(fHeight)>>
  ELSE <<>>

\* the two holes (front, back) pushed for every hole Y position
FlangeHoles(frontHoleOffset, holeYPositions) ==
  [i \in 1..(2 * Len(holeYPositions)) |->
     IF i % 2 = 1
     THEN <<frontHoleOffset, holeYPositions[(i + 1) \div 2], m3HoleRadius>>
     ELSE <<flangeDepth - backHoleOffset, holeYPositions[i \div 2], m3HoleRadius>>]

\* createFlangeWithHoles(fHeight, holeYPositions), placed by the caller
createFlangeWithHoles(name, fHeight, holeYPositions, gussetSize, flangeWidth, x, y, z) ==
  LET frontHoleOffset == gussetSize + Mm(5)
  IN  Extrude("flange", name, RectOutline(0, 0, flangeDepth, fHeight),
              FlangeHoles(frontHoleOffset, holeYPositions),
              flangeWidth, "y90", x, y, z)

\* the triangle of a flange gusset: (0,0), (0,height), (-+depth,0)
FlangeGussetOutline(side, gussetHeight, gussetDepth) ==
  <<<<0, 0>>, <<0, gussetHeight>>,
    <<IF side = "left" THEN -gussetDepth ELSE gussetDepth, 0>>>>

\* the triangle of a shelf gusset: (0,0), (shelfDepth,0), (0,gussetHeight)
ShelfGussetOutline(shelfDepth, gussetHeight) ==
  <<<<0, 0>>, <<shelfDepth, 0>>, <<0, gussetHeight>>>>

\* a variant that takes the ear side of a half from the form's earSide select
WideEarSide_FromForm(doc, bracketSide) == doc.earSide

\* const earSide = bracketSide: the left bracket gets the left ear, the right the right
WideEarSide(doc, bracketSide) == bracketSide

\* a variant that puts the right half's gussets at the faceplate edge
WideGussetX_AtEdge(bracketSide, faceplateWidth, flangeWidth) ==
  IF bracketSide = "left" THEN faceplateWidth - flangeWidth ELSE 0

\* gussetX: the inner face of the joining flange of either half
WideGussetX(bracketSide, faceplateWidth, flangeWidth) ==
  IF bracketSide = "left" THEN faceplateWidth - flangeWidth ELSE flangeWidth

generateWideBracket(doc, width, height, depth, tolerance, wallThickness, addSupport, shelfThickness, flangeThickness, gussetSize, shelfGussetWidth, bracketSide) ==
  LET isBlank == doc.isBlank
      addRackHoles == doc.addRackHoles
      rackUnits == CeilDiv(height, WIDE_DEVICE_HEIGHT_PER_U)
      faceplateHeight == rackUnits * RACK_UNIT_HEIGHT
      faceplateWidth == RACK_HALF_WIDTH
      faceplateThickness == wallThickness
      openingWidth == width + 2 * tolerance
      openingHeight == height + 2 * tolerance
      openingY == Centered(faceplateHeight, openingHeight)
      fullOpeningX == Centered(FULL_RACK_WIDTH, openingWidth)
      localOpeningStart ==
        IF bracketSide = "left" THEN Max(0, fullOpeningX)
        ELSE Max(0, fullOpeningX - RACK_HALF_WIDTH)
      localOpeningEnd ==
        IF bracketSide = "left"
        THEN Min(RACK_HALF_WIDTH, fullOpeningX + openingWidth)
        ELSE Min(RACK_HALF_WIDTH, fullOpeningX + openingWidth - RACK_HALF_WIDTH)
      localOpeningWidth == localOpeningEnd - localOpeningStart
      topHeight == faceplateHeight - openingY - openingHeight
      rightStart == localOpeningEnd
      rightWidth == faceplateWidth - rightStart
      faceplate ==
        IF isBlank
        THEN <<Box("faceplate", "blank", faceplateWidth, faceplateHeight, faceplateThickness,
                   Half(faceplateWidth), Half(faceplateHeight), -Half(faceplateThickness))>>
        ELSE When(openingY > 0,
                  Box("faceplate", "bottom", faceplateWidth, openingY, faceplateThickness,
                      Half(faceplateWidth), Half(openingY), -Half(faceplateThickness)))
             \o When(topHeight > 0,
                  Box("faceplate", "top", faceplateWidth, topHeight, faceplateThickness,
                      Half(faceplateWidth), openingY + openingHeight + Half(topHeight),
                      -Half(faceplateThickness)))
             \o When(localOpeningStart > 0,
                  Box("faceplate", "left", localOpeningStart, openingHeight, faceplateThickness,
                      Half(localOpeningStart), openingY + Half(openingHeight),
                      -Half(faceplateThickness)))
             \o When(rightWidth > 0,
                  Box("faceplate", "right", rightWidth, openingHeight, faceplateThickness,
                      rightStart + Half(rightWidth), openingY + Half(openingHeight),
                      -Half(faceplateThickness)))
      \* support shelf with the outer gusset only
      shelfDepth == depth + Mm(10)
      gussetWidth == shelfGussetWidth
      shelfStart == IF bracketSide = "left" THEN localOpeningStart - gussetWidth
                    ELSE localOpeningStart
      shelfWidth == localOpeningWidth + gussetWidth
      hasOuterGusset == IF bracketSide = "left" THEN localOpeningStart > gussetWidth
                        ELSE (faceplateWidth - localOpeningEnd) > gussetWidth
      shelf ==
        IF addSupport /\ ~isBlank /\ localOpeningWidth > 0 /\ shelfWidth > 0
        THEN <<Box("shelf", "shelf", shelfWidth, shelfThickness, shelfDepth,
                   shelfStart + Half(shelfWidth), openingY - Half(shelfThickness),
                   -faceplateThickness - Half(shelfDepth))>>
             \o When(hasOuterGusset,
                  Extrude("shelfGusset", "outer", ShelfGussetOutline(shelfDepth, height), <<>>,
                          gussetWidth, "y90",
                          IF bracketSide = "left" THEN localOpeningStart - gussetWidth
                          ELSE localOpeningEnd,
                          openingY, -faceplateThickness))
        ELSE <<>>
      earSide == WideEarSide(doc, bracketSide)
      ear == WideEar(earSide, addRackHoles, rackUnits, faceplateWidth, faceplateHeight,
                     faceplateThickness)
      \* joining flanges, top and bottom
      flangeWidth == flangeThickness
      flangeX == IF bracketSide = "left" THEN faceplateWidth - flangeWidth ELSE 0
      bottomFlangeHeight == openingY
      topFlangeHeight == faceplateHeight - openingY - openingHeight
      flanges ==
        When(bottomFlangeHeight > Mm(5),
             createFlangeWithHoles("bottom", bottomFlangeHeight,
                                   WideFlangeHoleYPositions(bottomFlangeHeight),
                                   gussetSize, flangeWidth, flangeX, 0, -faceplateThickness))
        \o When(topFlangeHeight > Mm(5),
             createFlangeWithHoles("top", topFlangeHeight,
                                   WideFlangeHoleYPositions(topFlangeHeight),
                                   gussetSize, flangeWidth, flangeX, openingY + openingHeight,
                                   -faceplateThickness))
      \* flange gussets, shrunk to the room above and below the opening
      gussetDepth == gussetSize
      bottomGussetHeight == Min(gussetSize, openingY)
      topGussetHeight == Min(gussetSize, faceplateHeight - openingY - openingHeight)
      gussetX == WideGussetX(bracketSide, faceplateWidth, flangeWidth)
      bottomGussetY == openingY - bottomGussetHeight
      gussets ==
        When(bottomGussetHeight > Mm(5),
             Extrude("flangeGusset", "bottom",
                     FlangeGussetOutline(bracketSide, bottomGussetHeight, gussetDepth), <<>>,
                     flangeWidth, "x-90", gussetX, bottomGussetY, -faceplateThickness))
        \o When(topGussetHeight > Mm(5),
             Extrude("flangeGusset", "top",
                     FlangeGussetOutline(bracketSide, topGussetHeight, gussetDepth), <<>>,
                     flangeWidth, "x-90", gussetX, openingY + openingHeight,
                     -faceplateThickness))
  IN  [side |-> bracketSide, pos |-> <<0, 0, 0>>,
       children |-> faceplate \o shelf \o ear \o flanges \o gussets]

(***************************************************************************)
(* generateMountGeometry.  doc is the document the function reads earSide, *)
(* isBlank and addRackHoles from.  The result is the returned group: its   *)
(* position and its brackets.  In wide mode the brackets are the two       *)
(* groups returned by generateWideBracket, each with the position it is    *)
(* given; in single mode the meshes are added to the group itself, which   *)
(* is written here as one bracket "single" at offset 0.                    *)
(***************************************************************************)
\* a variant that adds a solid ear and one cylinder mesh per hole position
SingleEar_CylinderHoles(earSide, addRackHoles, rackUnits, faceplateWidth, faceplateHeight, faceplateThickness) ==
  LET holeX == IF earSide = "left" THEN -Half(EAR_WIDTH)
               ELSE faceplateWidth + Half(EAR_WIDTH)
      holePositions == EarHolePositions(rackUnits)
      solid == Box("ear", "ear", EAR_WIDTH, faceplateHeight, faceplateThickness, holeX,
                   Half(faceplateHeight), -Half(faceplateThickness))
  IN  IF addRackHoles
      THEN <<solid>> \o
           [i \in DOMAIN holePositions |->
              [kind |-> "earHole", name |-> "hole", prim |-> "cylinder",
               size |-> <<2 * holeRadius, 2 * holeRadius, faceplateThickness>>,
               pos |-> <<holeX, holePositions[i], -Half(faceplateThickness)>>,
               rot |-> "none", outline |-> <<>>, holes |-> <<>>]]
      ELSE <<solid>>

\* the rack ear of the single bracket
SingleEar(earSide, addRackHoles, rackUnits, faceplateWidth, faceplateHeight, faceplateThickness) ==
  IF addRackHoles
  THEN LET holeX == IF earSide = "left" THEN -Half(EAR_WIDTH)
                    ELSE faceplateWidth + Half(EAR_WIDTH)
           earXStart == IF earSide = "left" THEN -EAR_WIDTH ELSE faceplateWidth
           earXEnd == IF earSide = "left" THEN 0 ELSE faceplateWidth + EAR_WIDTH
           holePositions == EarHolePositions(rackUnits)
       IN  <<Extrude("ear", "ear",
                   RectOutline(earXStart, 0, earXEnd, faceplateHeight),
                   [i \in DOMAIN holePositions |-> <<holeX, holePositions[i], holeRadius>>],
                   faceplateThickness, "none", 0, 0, -faceplateThickness)>>
  ELSE <<Box("ear", "ear", EAR_WIDTH, faceplateHeight, faceplateThickness,
           IF earSide = "left" THEN -Half(EAR_WIDTH)
           ELSE faceplateWidth + Half(EAR_WIDTH),
           Half(faceplateHeight), -Half(faceplateThickness))>>

\* holeYPositions of the full-height joining flange: i * faceplateHeight / (n + 1),
\* rounded down to the unit of the model
SingleFlangeHoleYPositions(faceplateHeight) ==
  LET numJoiningHoles == Max(2, FloorDiv(faceplateHeight, Mm(30)))
  IN  [i \in 1..numJoiningHoles |-> (i * faceplateHeight) \div (numJoiningHoles + 1)]

\* a variant that puts the joining flange on the edge the ear is on
SingleFlange_EarSide(earSide, faceplateWidth, faceplateHeight, faceplateThickness, flangeThickness, gussetSize) ==
  LET flangeWidth == flangeThickness
      frontHoleOffset == gussetSize + Mm(5)
      numJoiningHoles == Max(2, FloorDiv(faceplateHeight, Mm(30)))
      holeYPositions == [i \in 1..numJoiningHoles |->
                           (i * faceplateHeight) \div (numJoiningHoles + 1)]
  IN  Extrude("flange", "flange", RectOutline(0, 0, flangeDepth, faceplateHeight),
              FlangeHoles(frontHoleOffset, holeYPositions),
              flangeWidth, "y90",
              IF earSide = "left" THEN 0 ELSE faceplateWidth - flangeWidth,
              0, -faceplateThickness)

\* the joining flange of the single bracket, on the inner edge opposite the ear
SingleFlange(earSide, faceplateWidth, faceplateHeight, faceplateThickness, flangeThickness, gussetSize) ==
  LET flangeWidth == flangeThickness
      frontHoleOffset == gussetSize + Mm(5)
      holeYPositions == SingleFlangeHoleYPositions(faceplateHeight)
  IN  Extrude("flange", "flange", RectOutline(0, 0, flangeDepth, faceplateHeight),
              FlangeHoles(frontHoleOffset, holeYPositions),
              flangeWidth, "y90",
              IF earSide = "left" THEN faceplateWidth - flangeWidth ELSE 0,
              0, -faceplateThickness)

\* the two flange gussets of the single bracket
SingleFlangeGussets(earSide, faceplateWidth, faceplateHeight, faceplateThickness, flangeThickness, gussetSize) ==
  LET flangeWidth == flangeThickness
      gussetHeight == gussetSize
      gussetDepth == gussetSize
      gussetX == IF earSide = "left" THEN faceplateWidth - flangeWidth ELSE 0
  IN  <<Extrude("flangeGusset", "bottom",
                FlangeGussetOutline(earSide, gussetHeight, gussetDepth), <<>>,
                flangeWidth, "x-90", gussetX, Mm(10), -faceplateThickness),
        Extrude("flangeGusset", "top",
                FlangeGussetOutline(earSide, gussetHeight, gussetDepth), <<>>,
                flangeWidth, "x-90", gussetX, faceplateHeight - gussetHeight,
                -faceplateThickness)>>

generateMountGeometry(doc, width, height, depth, tolerance, wallThickness, addSupport, shelfThickness, flangeThickness, gussetSize, shelfGussetWidth) ==
  IF isWideDeviceMode(width, tolerance)
  THEN LET leftBracket == generateWideBracket(doc, width, height, depth, tolerance,
                            wallThickness, addSupport, shelfThickness, flangeThickness,
                            gussetSize, shelfGussetWidth, "left")
           rightBracket == generateWideBracket(doc, width, height, depth, tolerance,
                            wallThickness, addSupport, shelfThickness, flangeThickness,
                            gussetSize, shelfGussetWidth, "right")
           rackUnits == CeilDiv(height, WIDE_DEVICE_HEIGHT_PER_U)
           faceplateHeight == rackUnits * RACK_UNIT_HEIGHT
       IN  [pos |-> <<0, -Half(faceplateHeight), 0>>,
            brackets |-> <<[leftBracket EXCEPT !.pos = <<-RACK_HALF_WIDTH, 0, 0>>],
                           [rightBracket EXCEPT !.pos = <<0, 0, 0>>]>>]
  ELSE LET earSide == doc.earSide
           isBlank == doc.isBlank
           rackUnits == CeilDiv(height, SINGLE_DEVICE_HEIGHT_PER_U)
           faceplateHeight == rackUnits * RACK_UNIT_HEIGHT
           faceplateWidth == RACK_HALF_WIDTH
           faceplateThickness == wallThickness
           openingWidth == width + 2 * tolerance
           openingHeight == height + 2 * tolerance
           openingX == Centered(faceplateWidth, openingWidth)
           openingY == Centered(faceplateHeight, openingHeight)
           topHeight == faceplateHeight - openingY - openingHeight
           rightWidth == faceplateWidth - openingX - openingWidth
           faceplate ==
             IF isBlank
             THEN <<Box("faceplate", "blank", faceplateWidth, faceplateHeight,
                        faceplateThickness, Half(faceplateWidth), Half(faceplateHeight),
                        -Half(faceplateThickness))>>
             ELSE When(openingY > 0,
                       Box("faceplate", "bottom", faceplateWidth, openingY, faceplateThickness,
                           Half(faceplateWidth), Half(openingY), -Half(faceplateThickness)))
                  \o When(topHeight > 0,
                       Box("faceplate", "top", faceplateWidth, topHeight, faceplateThickness,
                           Half(faceplateWidth), openingY + openingHeight + Half(topHeight),
                           -Half(faceplateThickness)))
                  \o When(openingX > 0,
                       Box("faceplate", "left", openingX, openingHeight, faceplateThickness,
                           Half(openingX), openingY + Half(openingHeight),
                           -Half(faceplateThickness)))
                  \o When(rightWidth > 0,
                       Box("faceplate", "right", rightWidth, openingHeight, faceplateThickness,
                           openingX + openingWidth + Half(rightWidth),
                           openingY + Half(openingHeight), -Half(faceplateThickness)))
           \* support shelf with a gusset on either side
           shelfDepth == depth + Mm(10)
           gussetWidth == IF width > Mm(180) /\ width <= Mm(200)
                          THEN Min(shelfGussetWidth, Mm(5)) ELSE shelfGussetWidth
           shelfWidth == openingWidth + (gussetWidth * 2)
           shelf ==
             IF addSupport /\ ~isBlank
             THEN <<Box("shelf", "shelf", shelfWidth, shelfThickness, shelfDepth,
                        openingX + Half(openingWidth), openingY - Half(shelfThickness),
                        -faceplateThickness - Half(shelfDepth)),
                    Extrude("shelfGusset", "left", ShelfGussetOutline(shelfDepth, height), <<>>,
                            gussetWidth, "y90", openingX - gussetWidth, openingY,
                            -faceplateThickness),
                    Extrude("shelfGusset", "right", ShelfGussetOutline(shelfDepth, height), <<>>,
                            gussetWidth, "y90", openingX + openingWidth, openingY,
                            -faceplateThickness)>>
             ELSE <<>>
           addRackHoles == doc.addRackHoles
           ear == SingleEar(earSide, addRackHoles, rackUnits, faceplateWidth,
                            faceplateHeight, faceplateThickness)
           flange == <<SingleFlange(earSide, faceplateWidth, faceplateHeight,
                                    faceplateThickness, flangeThickness, gussetSize)>>
           gussets == SingleFlangeGussets(earSide, faceplateWidth, faceplateHeight,
                                          faceplateThickness, flangeThickness, gussetSize)
       IN  [pos |-> <<-Half(faceplateWidth), -Half(faceplateHeight), 0>>,
            brackets |-> <<[side |-> "single", pos |-> <<0, 0, 0>>,
                            children |-> faceplate \o shelf \o ear \o flange \o gussets]>>]

(***************************************************************************)
(* The form.  Every field takes the values a user can type or tick.        *)
(***************************************************************************)
WidthValues == {Mm(100), Mm(196), Mm(196) + Milli(1), Mm(210), Mm(440), Mm(460)}

HeightValues ==
  {Mm(44)} \cup UNION {{k * WIDE_DEVICE_HEIGHT_PER_U, k * SINGLE_DEVICE_HEIGHT_PER_U,
                        k * SINGLE_DEVICE_HEIGHT_PER_U + Milli(1)} : k \in 1..MaxUnits}

DepthValues == {Mm(200)}

ToleranceValues == {0, Mm(2), Mm(4), Mm(5)}

WallThicknessValues == {Mm(3), Mm(10)}

ShelfThicknessValues == {Mm(3)}

FlangeThicknessValues == {Mm(3), Mm(5)}

GussetSizeValues == {Mm(5), Mm(10), Mm(30)}

ShelfGussetWidthValues == {Mm(5), Mm(10)}

EarSideValues == {"left", "right"}

NumericFields == {"deviceWidth", "deviceHeight", "deviceDepth", "tolerance", "wallThickness",
                  "shelfThickness", "flangeThickness", "gussetSize", "shelfGussetWidth"}

FlagFields == {"addSupport", "addRackHoles", "isBlank"}

FieldValues(id) ==
  CASE id = "deviceWidth" -> WidthValues
    [] id = "deviceHeight" -> HeightValues
    [] id = "deviceDepth" -> DepthValues
    [] id = "tolerance" -> ToleranceValues
    [] id = "wallThickness" -> WallThicknessValues
    [] id = "shelfThickness" -> ShelfThicknessValues
    [] id = "flangeThickness" -> FlangeThicknessValues
    [] id = "gussetSize" -> GussetSizeValues
    [] id = "shelfGussetWidth" -> ShelfGussetWidthValues
    [] id = "earSide" -> EarSideValues
    [] OTHER -> BOOLEAN

\* the values typed into a numeric field during a session
TypedValues(id) ==
  CASE id = "deviceWidth" -> {0, Mm(100), Mm(196), Mm(196) + Milli(1), Mm(210)}
    [] id = "deviceHeight" -> {Mm(25), Mm(44)}
    [] id = "tolerance" -> {Mm(2), Mm(5)}
    [] id = "gussetSize" -> {Mm(10), Mm(30)}
    [] id = "flangeThickness" -> {Mm(3), Mm(5)}
    [] id = "deviceDepth" -> {Mm(200)}
    [] id = "wallThickness" -> {Mm(10)}
    [] id = "shelfThickness" -> {Mm(3)}
    [] id = "shelfGussetWidth" -> {Mm(5)}

\* the mesh variable before the first updatePreview
NoMesh == [pos |-> <<0, 0, 0>>, brackets |-> <<>>]

\* a variant that builds into the group of the previous request, whose last
\* bracket is still in it
PreviewOf_ReusedGroup(f) ==
  LET g == generateMountGeometry(f, f.deviceWidth, f.deviceHeight, f.deviceDepth,
                                 f.tolerance, f.wallThickness, f.addSupport,
                                 f.shelfThickness, f.flangeThickness, f.gussetSize,
                                 f.shelfGussetWidth)
  IN  IF mountMesh = NoMesh THEN g
      ELSE [g EXCEPT !.brackets = <<mountMesh.brackets[Len(mountMesh.brackets)]>> \o @]

\* the group updatePreview builds from the form f and stores in mountMesh
PreviewOf(f) ==
  generateMountGeometry(f, f.deviceWidth, f.deviceHeight, f.deviceDepth, f.tolerance,
                        f.wallThickness, f.addSupport, f.shelfThickness, f.flangeThickness,
                        f.gussetSize, f.shelfGussetWidth)

\* the values resetForm writes after form.reset()
ResetValues(f) ==
  [f EXCEPT !.deviceWidth = Mm(100), !.deviceHeight = Mm(44), !.deviceDepth = Mm(200),
            !.tolerance = Mm(2), !.wallThickness = Mm(10)]

\* the markup's own defaults, which form.reset() restores: fixed, but any of these
FormDefaults ==
  [deviceWidth : {Mm(100)}, deviceHeight : {Mm(44)}, deviceDepth : {Mm(200)},
   tolerance : {Mm(2)}, wallThickness : {Mm(10)},
   shelfThickness : ShelfThicknessValues, flangeThickness : FlangeThicknessValues,
   gussetSize : {Mm(10)}, shelfGussetWidth : {Mm(5)},
   addSupport : {TRUE}, addRackHoles : {TRUE}, isBlank : {FALSE}, earSide : {"left"}]

\* the mode and the heights calculateStats derives
StatsPlan(f) ==
  LET wideMode == isWideDeviceMode(f.deviceWidth, f.tolerance)
      DEVICE_HEIGHT_PER_U == IF wideMode THEN WIDE_DEVICE_HEIGHT_PER_U
                             ELSE SINGLE_DEVICE_HEIGHT_PER_U
      rackUnits == CeilDiv(f.deviceHeight, DEVICE_HEIGHT_PER_U)
  IN  [isWide |-> wideMode, perUnit |-> DEVICE_HEIGHT_PER_U, rackUnits |-> rackUnits,
       faceplateHeight |-> rackUnits * RACK_UNIT_HEIGHT]

\* a variant that always reports one part
calculateStats_OnePart(f) == 1

\* calculateStats: the number written to partsValue
calculateStats(f) == IF isWideDeviceMode(f.deviceWidth, f.tolerance) THEN 2 ELSE 1

\* no request has been recorded for comparison
NoProbe == [set |-> FALSE]

\* the record of requests: once a request is kept in probe, note every later
\* request made with other inputs
Observed(f) ==
  IF probe.set /\ f # probe.form THEN [probe EXCEPT !.between = TRUE] ELSE probe

\* the scene initScene() builds: the grid and the two lights
initScene ==
  <<[type |-> "GridHelper", name |-> "", body |-> <<>>],
    [type |-> "AmbientLight", name |-> "", body |-> <<>>],
    [type |-> "DirectionalLight", name |-> "", body |-> <<>>]>>

\* scene.remove(object): the children without the first one that is the object
RECURSIVE Remove(_, _, _)
Remove(s, type, body) ==
  IF s = <<>> THEN <<>>
  ELSE IF Head(s).type = type /\ Head(s).body = body THEN Tail(s)
  ELSE <<Head(s)>> \o Remove(Tail(s), type, body)

\* scene.getObjectByName(name): the first object of that name, as a set
GetObjectByName(s, name) ==
  LET found == {i \in DOMAIN s : s[i].name = name}
  IN  IF found = {} THEN {} ELSE {s[CHOOSE i \in found : \A j \in found : i <= j]}

\* a variant that places the device with the standard 35 mm a unit in either mode
DevicePlan_Standard(f) ==
  LET isWide == isWideDeviceMode(f.deviceWidth, f.tolerance)
      rackUnits == CeilDiv(f.deviceHeight, SINGLE_DEVICE_HEIGHT_PER_U)
  IN  [isWide |-> isWide, perUnit |-> SINGLE_DEVICE_HEIGHT_PER_U, rackUnits |-> rackUnits,
       faceplateHeight |-> rackUnits * RACK_UNIT_HEIGHT]

\* the mode and the heights updatePreview derives to place the device
DevicePlan(f) ==
  LET isWide == isWideDeviceMode(f.deviceWidth, f.tolerance)
      DEVICE_HEIGHT_PER_U == IF isWide THEN WIDE_DEVICE_HEIGHT_PER_U
                             ELSE SINGLE_DEVICE_HEIGHT_PER_U
      rackUnits == CeilDiv(f.deviceHeight, DEVICE_HEIGHT_PER_U)
  IN  [isWide |-> isWide, perUnit |-> DEVICE_HEIGHT_PER_U, rackUnits |-> rackUnits,
       faceplateHeight |-> rackUnits * RACK_UNIT_HEIGHT]

\* the translucent box that stands for the device
DeviceMesh(f) ==
  LET plan == DevicePlan(f)
      faceplateHeight == plan.faceplateHeight
      openingWidth == f.deviceWidth + 2 * f.tolerance
      openingHeight == f.deviceHeight + 2 * f.tolerance
      openingY == Half(faceplateHeight - openingHeight)
      openingX == Half(RACK_HALF_WIDTH - openingWidth)
      y == openingY + f.tolerance + Half(f.deviceHeight) - Half(faceplateHeight)
      z == -(f.wallThickness + Half(f.deviceDepth))
  IN  [type |-> "Mesh", name |-> "deviceMesh",
       body |-> [size |-> <<f.deviceWidth, f.deviceHeight, f.deviceDepth>>,
                 pos |-> IF plan.isWide THEN <<0, y, z>>
                         ELSE <<openingX + Half(openingWidth) - Half(RACK_HALF_WIDTH),
                                y, z>>]]

\* a variant that leaves the group of the previous request in the scene
SceneAfterPreview_KeepOld(s, f) ==
  LET s2 == Append(s, [type |-> "Group", name |-> "", body |-> PreviewOf(f)])
      oldDevice == GetObjectByName(s2, "deviceMesh")
      s3 == IF oldDevice = {} THEN s2
            ELSE LET o == CHOOSE o \in oldDevice : TRUE IN Remove(s2, o.type, o.body)
  IN  Append(s3, DeviceMesh(f))

\* the scene after updatePreview on the form f, from the scene s: the old group
\* removed, the new one added, the old device mesh removed, the new one added
SceneAfterPreview(s, f) ==
  LET s1 == IF mountMesh # NoMesh THEN Remove(s, "Group", mountMesh) ELSE s
      s2 == Append(s1, [type |-> "Group", name |-> "", body |-> PreviewOf(f)])
      oldDevice == GetObjectByName(s2, "deviceMesh")
      s3 == IF oldDevice = {} THEN s2
            ELSE LET o == CHOOSE o \in oldDevice : TRUE IN Remove(s2, o.type, o.body)
  IN  Append(s3, DeviceMesh(f))

\* updateWideModeIndicator(width, tolerance): the display it sets
updateWideModeIndicator(width, tolerance) ==
  IF isWideDeviceMode(width, tolerance) THEN "block" ELSE "none"

\* updatePreview() on the form f, the scene being s: the group is regenerated
\* and stored, the scene refreshed, the statistics and the indicator recomputed
updatePreview(s, f) ==
  /\ mountMesh' = PreviewOf(f)
  /\ scene' = SceneAfterPreview(s, f)
  /\ partsValue' = calculateStats(f)
  /\ wideModeIndicator' = updateWideModeIndicator(f.deviceWidth, f.tolerance)
  /\ probe' = Observed(f)

\* what an exporter call returns when there is nothing to export
NoData == [offset |-> <<0, 0, 0>>, brackets |-> <<>>]

\* no file has been written yet
NoExport == [name |-> "", stl |-> NoData, preview |-> NoMesh]

Init ==
  /\ defaults \in FormDefaults
  /\ form = defaults
  /\ mountMesh = NoMesh
  /\ scene = <<>>
  /\ wideModeIndicator = ""
  /\ loaded = FALSE
  /\ partsValue = 0
  /\ statusMessage = ""
  /\ fileList = ""
  /\ filesContainer = "none"
  /\ timers = {}
  /\ requests = <<>>
  /\ downloads = <<>>
  /\ lastExport = NoExport
  /\ probe = NoProbe

\* window 'load': initScene(); updatePreview()
Load ==
  /\ ~loaded
  /\ loaded' = TRUE
  /\ updatePreview(initScene, form)
  /\ UNCHANGED <<defaults, form, pageVars, exportVars>>

\* an 'input' event of a numeric field: the field holds v, updatePreview runs
InputNumber(id, v) ==
  /\ loaded
  /\ form' = [form EXCEPT ![id] = v]
  /\ updatePreview(scene, form')
  /\ UNCHANGED <<defaults, loaded, pageVars, exportVars>>

\* a 'change' event of a checkbox: the box is toggled, updatePreview runs
ChangeFlag(id) ==
  /\ loaded
  /\ form' = [form EXCEPT ![id] = ~form[id]]
  /\ updatePreview(scene, form')
  /\ UNCHANGED <<defaults, loaded, pageVars, exportVars>>

\* a 'change' event of the earSide select
ChangeEarSide(v) ==
  /\ loaded
  /\ form' = [form EXCEPT !.earSide = v]
  /\ updatePreview(scene, form')
  /\ UNCHANGED <<defaults, loaded, pageVars, exportVars>>

\* resetForm(): form.reset(), the five explicit values, the file list hidden,
\* the status message cleared, updatePreview()
resetForm ==
  /\ loaded
  /\ form' = ResetValues(defaults)
  /\ filesContainer' = "none"
  /\ statusMessage' = ""
  /\ updatePreview(scene, form')
  /\ UNCHANGED <<defaults, loaded, fileList, exportVars>>

Next ==
  \/ Load
  \/ \E id \in NumericFields : \E v \in TypedValues(id) : InputNumber(id, v)
  \/ \E id \in FlagFields : ChangeFlag(id)
  \/ \E v \in EarSideValues : ChangeEarSide(v)
  \/ resetForm

Spec == Init /\ [][Next]_vars

TypeOK ==
  /\ loaded \in BOOLEAN
  /\ \A id \in NumericFields : form[id] \in FieldValues(id) \cup TypedValues(id)

(***************************************************************************)
(* Export.  An STL file is written here as what the exporter is given: the *)
(* brackets with their meshes, and the offset baked into every mesh.  The  *)
(* submit handler runs in two steps, before and after its 100 ms wait; the *)
(* right half of a wide export is downloaded by a 500 ms timer.  requests  *)
(* and downloads record the calls of downloadSTLFromPreview and the files  *)
(* each of them downloads; a file downloaded by a Download button of the   *)
(* wide file list belongs to no request (req 0) and is kept in lastExport  *)
(* only.  A request records who made it (by), the mode its handler read    *)
(* (wide), the parts count displayed (parts) and whether the preview was a *)
(* wide pair (shown).  The timer of a right half carries the form of the   *)
(* moment it was set, and a file records whether the form it was generated *)
(* from was still that one (asRequested).                                  *)
(***************************************************************************)
\* the group holds the two halves of a wide bracket
IsWideMesh(m) ==
  /\ Len(m.brackets) = 2
  /\ m.brackets[1].side = "left"
  /\ m.brackets[2].side = "right"

\* the group holds one single bracket
IsSingleMesh(m) ==
  /\ Len(m.brackets) = 1
  /\ m.brackets[1].side = "single"

\* the export requests a run may make
MaxRequests == 2

\* the widths typed while exporting
ExportWidths == {Mm(100), Mm(210)}

\* the heights typed while exporting: one that needs two units at 25 mm a unit
\* and one at 35 mm, one that needs two units either way
ExportHeights == {Mm(30), Mm(44)}

\* exportSTL(): the meshes of the preview group, each with the group's
\* world matrix applied
exportSTL(m) ==
  IF m = NoMesh THEN NoData
  ELSE [offset |-> m.pos, brackets |-> m.brackets]

\* a variant that exports the half as the preview places it
exportBracketSTL_AsPreviewed(f, bracketSide) ==
  LET bracket == generateWideBracket(f, f.deviceWidth, f.deviceHeight, f.deviceDepth,
                                     f.tolerance, f.wallThickness, f.addSupport,
                                     f.shelfThickness, f.flangeThickness, f.gussetSize,
                                     f.shelfGussetWidth, bracketSide)
  IN  [offset |-> PreviewOf(f).pos,
       brackets |-> <<[bracket EXCEPT !.pos = IF bracketSide = "left"
                                              THEN <<-RACK_HALF_WIDTH, 0, 0>>
                                              ELSE <<0, 0, 0>>]>>]

\* exportBracketSTL(bracketSide): a fresh half generated from the form f
exportBracketSTL(f, bracketSide) ==
  LET bracket == generateWideBracket(f, f.deviceWidth, f.deviceHeight, f.deviceDepth,
                                     f.tolerance, f.wallThickness, f.addSupport,
                                     f.shelfThickness, f.flangeThickness, f.gussetSize,
                                     f.shelfGussetWidth, bracketSide)
  IN  [offset |-> <<0, 0, 0>>, brackets |-> <<bracket>>]

\* link.download of downloadBracket(side)
BracketFileName(side) ==
  IF side = "left" THEN "rack_mount_bracket_left.stl" ELSE "rack_mount_bracket_right.stl"

\* link.click(): the browser is handed the file; the files of the export
\* requests are logged
WriteFile(name, stlData, r, same) ==
  /\ downloads' = IF r = 0 THEN downloads
                  ELSE Append(downloads, [name |-> name, req |-> r, asRequested |-> same])
  /\ lastExport' = [name |-> name, stl |-> stlData, preview |-> mountMesh]

\* downloadBracket(side)
downloadBracket(side, r, same) ==
  LET stlData == exportBracketSTL(form, side)
  IN  IF stlData = NoData THEN UNCHANGED <<downloads, lastExport>>
      ELSE WriteFile(BracketFileName(side), stlData, r, same)

\* downloadSTLFromPreview(); pending are the timers that stay pending
downloadSTLFromPreview(r, pending) ==
  IF isWideDeviceMode(form.deviceWidth, form.tolerance)
  THEN /\ downloadBracket("left", r, TRUE)
       /\ timers' = pending \cup {[fn |-> "downloadBracketRight", req |-> r, form |-> form]}
  ELSE /\ timers' = pending
       /\ LET stlData == exportSTL(mountMesh)
          IN  IF stlData = NoData THEN UNCHANGED <<downloads, lastExport>>
              ELSE WriteFile("rack_mount_bracket.stl", stlData, r, TRUE)

\* 'submit' of mountForm, up to the await of the 100 ms timeout
Submit ==
  /\ loaded
  /\ Len(requests) < MaxRequests
  /\ statusMessage' = "generating"
  /\ requests' = Append(requests, [by |-> "submit", state |-> "waiting", wide |-> FALSE,
                                   parts |-> 0, shown |-> FALSE])
  /\ timers' = timers \cup {[fn |-> "submit", req |-> Len(requests) + 1]}
  /\ UNCHANGED <<defaults, form, mountMesh, scene, wideModeIndicator, loaded, partsValue, fileList, filesContainer,
                 downloads, lastExport, probe>>

\* the rest of the submit handler, once its timeout has fired
SubmitResume(r) ==
  LET t == [fn |-> "submit", req |-> r]
      wideMode == isWideDeviceMode(form.deviceWidth, form.tolerance)
  IN  /\ t \in timers
      /\ \A u \in timers : u.fn = "submit" => u.req >= r
      /\ requests' = [requests EXCEPT ![r] = [by |-> "submit", state |-> "exported",
                                              wide |-> wideMode,
                                              parts |-> partsValue,
                                              shown |-> IsWideMesh(mountMesh)]]
      /\ downloadSTLFromPreview(r, timers \ {t})
      /\ statusMessage' = "success"
      /\ fileList' = IF wideMode THEN "wide" ELSE "single"
      /\ filesContainer' = "block"
      /\ UNCHANGED <<defaults, form, mountMesh, scene, wideModeIndicator, loaded, partsValue, probe>>

\* the 500 ms timer of a wide export fires: downloadBracket('right')
TimerDownloadRight(r) ==
  LET t == CHOOSE u \in timers : u.fn = "downloadBracketRight" /\ u.req = r
  IN  /\ \E u \in timers : u.fn = "downloadBracketRight" /\ u.req = r
      /\ \A u \in timers : u.fn = "downloadBracketRight" => u.req >= r
      /\ timers' = timers \ {t}
      /\ downloadBracket("right", r, form = t.form)
      /\ UNCHANGED <<defaults, form, mountMesh, scene, wideModeIndicator, loaded, partsValue, pageVars, requests, probe>>

\* a click on a Download button of the wide file list: downloadBracket(side)
ClickDownloadBracket(side) ==
  /\ loaded
  /\ fileList = "wide"
  /\ filesContainer = "block"
  /\ downloadBracket(side, 0, TRUE)
  /\ UNCHANGED <<defaults, form, mountMesh, scene, wideModeIndicator, loaded, partsValue, pageVars, timers, requests, probe>>

\* a click on Download Again of the single file list: downloadSTLFromPreview()
ClickDownloadAgain ==
  /\ loaded
  /\ fileList = "single"
  /\ filesContainer = "block"
  /\ Len(requests) < MaxRequests
  /\ requests' = Append(requests,
                        [by |-> "downloadAgain", state |-> "exported",
                         wide |-> isWideDeviceMode(form.deviceWidth, form.tolerance),
                         parts |-> partsValue, shown |-> IsWideMesh(mountMesh)])
  /\ downloadSTLFromPreview(Len(requests) + 1, timers)
  /\ UNCHANGED <<defaults, form, mountMesh, scene, wideModeIndicator, loaded, partsValue, pageVars, probe>>

ExportNext ==
  \/ Load
  \/ \E v \in ExportWidths : InputNumber("deviceWidth", v)
  \/ \E v \in ExportHeights : InputNumber("deviceHeight", v)
  \/ resetForm
  \/ Submit
  \/ \E r \in 1..MaxRequests : SubmitResume(r)
  \/ \E r \in 1..MaxRequests : TimerDownloadRight(r)
  \/ \E side \in {"left", "right"} : ClickDownloadBracket(side)
  \/ ClickDownloadAgain

\* the page as it is served, taken with the thinner of the flange defaults: the
\* export handlers hand the flange thickness on and never branch on it
ExportInit ==
  /\ Init
  /\ defaults.flangeThickness = Mm(3)

ExportSpec == ExportInit /\ [][ExportNext]_vars

(***************************************************************************)
(* The same machine with one generation request kept for comparison with   *)
(* the later ones.                                                         *)
(***************************************************************************)
\* the requests that may be kept: the markup's defaults with either width
ProbeForms ==
  {[d EXCEPT !.deviceWidth = w] : d \in FormDefaults, w \in {Mm(100), Mm(210)}}

\* keep the inputs and the result of the generation request just served
Remember ==
  /\ loaded
  /\ ~probe.set
  /\ form \in ProbeForms
  /\ probe' = [set |-> TRUE, form |-> form, mesh |-> mountMesh, between |-> FALSE]
  /\ UNCHANGED <<defaults, form, mountMesh, scene, wideModeIndicator, loaded, partsValue, pageVars, exportVars>>

DetNext == Next \/ Remember

DetSpec == Init /\ [][DetNext]_vars

(***************************************************************************)
(* The generator on its own: any form the fields can hold, and one run of  *)
(* updatePreview on it.                                                    *)
(***************************************************************************)
AllForms ==
  [deviceWidth : WidthValues, deviceHeight : HeightValues, deviceDepth : DepthValues,
   tolerance : ToleranceValues, wallThickness : WallThicknessValues,
   shelfThickness : ShelfThicknessValues, flangeThickness : FlangeThicknessValues,
   gussetSize : GussetSizeValues, shelfGussetWidth : ShelfGussetWidthValues,
   addSupport : BOOLEAN, addRackHoles : BOOLEAN, isBlank : BOOLEAN,
   earSide : EarSideValues]

GenInit ==
  /\ form \in AllForms
  /\ defaults = form
  /\ mountMesh = NoMesh
  /\ scene = <<>>
  /\ wideModeIndicator = ""
  /\ loaded = FALSE
  /\ partsValue = 0
  /\ statusMessage = ""
  /\ fileList = ""
  /\ filesContainer = "none"
  /\ timers = {}
  /\ requests = <<>>
  /\ downloads = <<>>
  /\ lastExport = NoExport
  /\ probe = NoProbe

GenNext == Load

GenSpec == GenInit /\ [][GenNext]_vars

(***************************************************************************)
(* Measurements of a generated group, used to state the properties.        *)
(***************************************************************************)
MinOf(S) == CHOOSE x \in S : \A y \in S : x <= y

MaxOf(S) == CHOOSE x \in S : \A y \in S : x >= y

OutlineXs(c) == {c.outline[i][1] : i \in DOMAIN c.outline}

OutlineYs(c) == {c.outline[i][2] : i \in DOMAIN c.outline}

\* extent of a mesh along X in its bracket's coordinates: a box is centred at
\* its position; rotation.y = PI/2 turns the extrusion axis into X
XMin(c) ==
  IF c.prim = "box" THEN c.pos[1] - Half(c.size[1])
  ELSE IF c.rot = "y90" THEN c.pos[1]
  ELSE c.pos[1] + MinOf(OutlineXs(c))

XMax(c) ==
  IF c.prim = "box" THEN c.pos[1] + Half(c.size[1])
  ELSE IF c.rot = "y90" THEN c.pos[1] + c.size[3]
  ELSE c.pos[1] + MaxOf(OutlineXs(c))

\* extent along Y: rotation.x = -PI/2 turns the extrusion axis into Y
YMin(c) ==
  IF c.prim = "box" THEN c.pos[2] - Half(c.size[2])
  ELSE IF c.rot = "x-90" THEN c.pos[2]
  ELSE c.pos[2] + MinOf(OutlineYs(c))

YMax(c) ==
  IF c.prim = "box" THEN c.pos[2] + Half(c.size[2])
  ELSE IF c.rot = "x-90" THEN c.pos[2] + c.size[3]
  ELSE c.pos[2] + MaxOf(OutlineYs(c))

\* the meshes of a bracket of a kind, and of a kind and name
Kids(b, kind) == {i \in DOMAIN b.children : b.children[i].kind = kind}

Named(b, kind, name) ==
  {b.children[i] : i \in {j \in Kids(b, kind) : b.children[j].name = name}}

Brackets == {mountMesh.brackets[i] : i \in DOMAIN mountMesh.brackets}

\* the quantities of the form the properties speak of
FormOpeningWidth == form.deviceWidth + 2 * form.tolerance

FormOpeningHeight == form.deviceHeight + 2 * form.tolerance

FormIsWide == FormOpeningWidth > Mm(200)

\* the least k with height <= k * perUnit
UnitsFor(height, perUnit) ==
  CHOOSE k \in 1..(2 * MaxUnits + 2) :
    /\ k * perUnit >= height
    /\ (k - 1) * perUnit < height

FormRackUnits ==
  UnitsFor(form.deviceHeight, IF FormIsWide THEN Mm(25) ELSE Mm(35))

FormFaceplateHeight == FormRackUnits * Centi(4445)

(***************************************************************************)
(* C1  Mode selection: the generated group is the two-bracket group        *)
(* exactly when deviceWidth + 2*tolerance is strictly greater than 200 mm; *)
(* an opening width of exactly 200 mm gives the single bracket.            *)
(***************************************************************************)
C1_ModeSelection ==
  loaded =>
    /\ (FormOpeningWidth > Mm(200) => IsWideMesh(mountMesh))
    /\ (FormOpeningWidth <= Mm(200) => IsSingleMesh(mountMesh))

\* an opening of exactly 200 mm was generated, as a single bracket
C1_Witness ==
  /\ loaded
  /\ FormOpeningWidth = Mm(200)
  /\ IsSingleMesh(mountMesh)

(***************************************************************************)
(* C2  Blank-panel mode (as claimed): with isBlank ticked every generated  *)
(* bracket consists of exactly the solid faceplate box and the rack ear,   *)
(* with no shelf, no joining flange and no flange gusset.                  *)
(***************************************************************************)
C2_BlankPanelOnlyFaceplateAndEar ==
  (loaded /\ form.isBlank) =>
    \A b \in Brackets :
      /\ Len(b.children) = 2
      /\ Cardinality(Kids(b, "faceplate")) = 1
      /\ Cardinality(Kids(b, "ear")) = 1
      /\ \A c \in Named(b, "faceplate", "blank") : c.prim = "box"
      /\ Kids(b, "flange") = {}
      /\ Kids(b, "flangeGusset") = {}
      /\ Kids(b, "shelf") = {}

(***************************************************************************)
(* C3  Holes remove material: every mesh of a generated bracket is a box   *)
(* or an extruded shape; hole circles occur only in the holes list of the  *)
(* extruded ear and flange shapes; an ear with rack holes is one extruded  *)
(* shape carrying them, and no mesh is placed at a hole position.          *)
(***************************************************************************)
C3_HolesAreShapeHoles ==
  loaded =>
    \A b \in Brackets :
      \A i \in DOMAIN b.children :
        LET c == b.children[i]
        IN  /\ c.prim \in {"box", "extrude"}
            /\ c.kind \in {"faceplate", "shelf", "shelfGusset", "ear", "flange",
                           "flangeGusset"}
            /\ (c.holes # <<>> => c.prim = "extrude" /\ c.kind \in {"ear", "flange"})
            /\ (c.kind = "ear" /\ form.addRackHoles =>
                  c.prim = "extrude" /\ c.holes # <<>>)
            /\ (c.kind = "flange" => c.prim = "extrude")

\* a single bracket whose ear and flange are both extruded with holes
C3_Witness ==
  /\ loaded
  /\ form.addRackHoles
  /\ IsSingleMesh(mountMesh)
  /\ \E b \in Brackets :
       /\ \E i \in Kids(b, "ear") : Len(b.children[i].holes) >= 3
       /\ \E i \in Kids(b, "flange") : Len(b.children[i].holes) >= 4

(***************************************************************************)
(* C4  Extrusion precondition (as claimed): in every extruded shape with   *)
(* holes, each hole circle lies inside the rectangular outline and no two  *)
(* hole circles overlap.                                                   *)
(***************************************************************************)
HoleInsideOutline(c, h) ==
  /\ h[1] - h[3] >= MinOf(OutlineXs(c))
  /\ h[1] + h[3] <= MaxOf(OutlineXs(c))
  /\ h[2] - h[3] >= MinOf(OutlineYs(c))
  /\ h[2] + h[3] <= MaxOf(OutlineYs(c))

Abs(x) == IF x >= 0 THEN x ELSE -x

\* two circles share no interior point (touching is allowed)
HolesDisjoint(g, h) ==
  LET dx == Abs(g[1] - h[1])
      dy == Abs(g[2] - h[2])
      r == g[3] + h[3]
  IN  \/ dx >= r
      \/ dy >= r
      \/ dx * dx + dy * dy >= r * r

C4_HolesInsideAndDisjoint ==
  loaded =>
    \A b \in Brackets :
      \A i \in DOMAIN b.children :
        LET c == b.children[i]
        IN  /\ \A j \in DOMAIN c.holes : HoleInsideOutline(c, c.holes[j])
            /\ \A j, k \in DOMAIN c.holes :
                 j # k => HolesDisjoint(c.holes[j], c.holes[k])

(***************************************************************************)
(* C5  Gusset clamping (as claimed): with an opening in the faceplate, on  *)
(* each side (bottom, top) the flange gusset is emitted exactly when the   *)
(* span between the opening and the faceplate edge is at least 5 mm, and   *)
(* its height is min(gussetSize, span).                                    *)
(***************************************************************************)
\* the height of a flange gusset: the second corner of its triangle
GussetHeightOf(c) == c.outline[2][2]

C5_GussetClamped ==
  (loaded /\ ~form.isBlank) =>
    LET openingY == Half(FormFaceplateHeight - FormOpeningHeight)
        span == [s \in {"bottom", "top"} |->
                   IF s = "bottom" THEN openingY
                   ELSE FormFaceplateHeight - openingY - FormOpeningHeight]
    IN  \A b \in Brackets :
          \A s \in {"bottom", "top"} :
            /\ (Named(b, "flangeGusset", s) # {} <=> span[s] >= Mm(5))
            /\ \A c \in Named(b, "flangeGusset", s) :
                 /\ GussetHeightOf(c) = Min(form.gussetSize, span[s])
                 /\ GussetHeightOf(c) <= span[s]

(***************************************************************************)
(* C6  Rack-unit count: the faceplate height of the generated bracket (the *)
(* height of its ear) is k * 44.45 mm for the least k with                 *)
(* height <= k * 35 mm in single mode and height <= k * 25 mm in wide      *)
(* mode, and the group is lowered by half of it; a 44 mm device in single  *)
(* mode gets 2 units, 88.9 mm.                                             *)
(***************************************************************************)
EarHeightOf(c) == IF c.prim = "box" THEN c.size[2] ELSE MaxOf(OutlineYs(c))

C6_RackUnits ==
  loaded =>
    /\ \A b \in Brackets :
         \A i \in Kids(b, "ear") :
           EarHeightOf(b.children[i]) = FormRackUnits * Centi(4445)
    /\ mountMesh.pos[2] = -Half(FormRackUnits * Centi(4445))
    /\ (form.deviceHeight = Mm(44) /\ ~FormIsWide =>
          \A b \in Brackets :
            \A i \in Kids(b, "ear") : EarHeightOf(b.children[i]) = Centi(8890))

\* a 44 mm device in single mode with an 88.9 mm ear
C6_Witness ==
  /\ loaded
  /\ ~FormIsWide
  /\ form.deviceHeight = Mm(44)
  /\ \E b \in Brackets :
       \E i \in Kids(b, "ear") : EarHeightOf(b.children[i]) = Centi(8890)

(***************************************************************************)
(* C7  Opening centering: with an opening in the faceplate, the left and   *)
(* right faceplate pieces are (width + 2*tolerance) apart and as high as   *)
(* (height + 2*tolerance), the bottom and top pieces are                   *)
(* (height + 2*tolerance) apart; in single mode the left and right pieces  *)
(* are equally wide inside [0, 225] and the bottom and top pieces equally  *)
(* high inside [0, faceplateHeight]; in wide mode the left half's left     *)
(* piece and the right half's right piece are equally wide, so that the    *)
(* opening is centred on the joint of the 450 mm rack width.               *)
(***************************************************************************)
VerticallyCentered(b) ==
  LET B == Named(b, "faceplate", "bottom")
      T == Named(b, "faceplate", "top")
  IN  /\ (B = {} <=> T = {})
      /\ Cardinality(B) <= 1
      /\ Cardinality(T) <= 1
      /\ \A lo \in B : \A hi \in T :
           /\ lo.size[2] = hi.size[2]
           /\ YMin(lo) = 0
           /\ YMax(hi) = FormFaceplateHeight
           /\ YMin(hi) - YMax(lo) = FormOpeningHeight

C7_OpeningCentered ==
  (loaded /\ ~form.isBlank) =>
    /\ \A b \in Brackets : VerticallyCentered(b)
    /\ LET lb == mountMesh.brackets[1]
           rb == mountMesh.brackets[Len(mountMesh.brackets)]
           L == Named(lb, "faceplate", "left")
           R == Named(rb, "faceplate", "right")
       IN  /\ (L = {} <=> R = {})
           /\ Cardinality(L) <= 1
           /\ Cardinality(R) <= 1
           /\ \A l \in L : \A r \in R :
                /\ l.size[1] = r.size[1]
                /\ l.size[2] = FormOpeningHeight
                /\ r.size[2] = FormOpeningHeight
                /\ XMin(l) = 0
                /\ XMax(r) = Mm(225)
                /\ (rb.pos[1] + XMin(r)) - (lb.pos[1] + XMax(l)) = FormOpeningWidth
           /\ (FormIsWide =>
                 /\ lb.pos[1] = -Mm(225)
                 /\ rb.pos[1] = 0
                 /\ Named(lb, "faceplate", "right") = {}
                 /\ Named(rb, "faceplate", "left") = {})

\* the bracket of the 100 x 44 mm device with 2 mm tolerance: a 104 x 48 mm opening
\* between pieces of 60.5 mm on either side and 20.45 mm below and above
C7_Witness ==
  /\ loaded
  /\ ~form.isBlank
  /\ form.deviceWidth = Mm(100)
  /\ form.deviceHeight = Mm(44)
  /\ form.tolerance = Mm(2)
  /\ \E b \in Brackets :
       /\ \E l \in Named(b, "faceplate", "left") : l.size[1] = Centi(6050)
       /\ \E r \in Named(b, "faceplate", "right") : r.size[1] = Centi(6050)
       /\ \E lo \in Named(b, "faceplate", "bottom") : lo.size[2] = Centi(2045)

(***************************************************************************)
(* C8  Wide-mode ears: in wide mode the group has exactly two halves, left *)
(* then right; the left half has exactly one ear, spanning x from -15.875  *)
(* to 0, the right half exactly one, spanning x from 225 to 240.875,       *)
(* whatever the earSide select holds.                                      *)
(***************************************************************************)
C8_WideEars ==
  (loaded /\ FormIsWide) =>
    /\ IsWideMesh(mountMesh)
    /\ LET lb == mountMesh.brackets[1]
           rb == mountMesh.brackets[2]
       IN  /\ Cardinality(Kids(lb, "ear")) = 1
           /\ Cardinality(Kids(rb, "ear")) = 1
           /\ \A i \in Kids(lb, "ear") :
                /\ XMin(lb.children[i]) = -Milli(15875)
                /\ XMax(lb.children[i]) = 0
           /\ \A i \in Kids(rb, "ear") :
                /\ XMin(rb.children[i]) = Mm(225)
                /\ XMax(rb.children[i]) = Mm(225) + Milli(15875)

\* wide mode with earSide = right: the left half still has its ear on the left
C8_Witness ==
  /\ loaded
  /\ FormIsWide
  /\ form.earSide = "right"
  /\ IsWideMesh(mountMesh)
  /\ \E i \in Kids(mountMesh.brackets[1], "ear") :
       XMax(mountMesh.brackets[1].children[i]) = 0

(***************************************************************************)
(* C9  Single-mode ear and flange sides: in single mode there is exactly   *)
(* one ear and exactly one joining flange; the ear spans [-15.875, 0] for  *)
(* earSide = left and [225, 240.875] for right; the flange spans           *)
(* [225 - flangeThickness, 225] when the ear is left and                   *)
(* [0, flangeThickness] when it is right.                                  *)
(***************************************************************************)
C9_SingleEarAndFlangeSides ==
  (loaded /\ ~FormIsWide) =>
    /\ IsSingleMesh(mountMesh)
    /\ LET b == mountMesh.brackets[1]
       IN  /\ Cardinality(Kids(b, "ear")) = 1
           /\ Cardinality(Kids(b, "flange")) = 1
           /\ \A i \in Kids(b, "ear") :
                IF form.earSide = "left"
                THEN XMin(b.children[i]) = -Milli(15875) /\ XMax(b.children[i]) = 0
                ELSE /\ XMin(b.children[i]) = Mm(225)
                     /\ XMax(b.children[i]) = Mm(225) + Milli(15875)
           /\ \A i \in Kids(b, "flange") :
                IF form.earSide = "left"
                THEN /\ XMin(b.children[i]) = Mm(225) - form.flangeThickness
                     /\ XMax(b.children[i]) = Mm(225)
                ELSE /\ XMin(b.children[i]) = 0
                     /\ XMax(b.children[i]) = form.flangeThickness

\* a single bracket with the ear on the right and the flange at [0, flangeThickness]
C9_Witness ==
  /\ loaded
  /\ ~FormIsWide
  /\ form.earSide = "right"
  /\ IsSingleMesh(mountMesh)
  /\ \E i \in Kids(mountMesh.brackets[1], "flange") :
       /\ XMin(mountMesh.brackets[1].children[i]) = 0
       /\ XMax(mountMesh.brackets[1].children[i]) = form.flangeThickness
  /\ \E i \in Kids(mountMesh.brackets[1], "ear") :
       XMin(mountMesh.brackets[1].children[i]) = Mm(225)

(***************************************************************************)
(* C10  Solid ear: with addRackHoles unticked, in both modes every bracket *)
(* has exactly one ear mesh, a box of 15.875 x faceplateHeight x           *)
(* wallThickness, and no extruded ear shape.                               *)
(***************************************************************************)
C10_SolidEar ==
  (loaded /\ ~form.addRackHoles) =>
    \A b \in Brackets :
      /\ Cardinality(Kids(b, "ear")) = 1
      /\ \A i \in Kids(b, "ear") :
           /\ b.children[i].prim = "box"
           /\ b.children[i].holes = <<>>
           /\ b.children[i].size = <<Milli(15875), FormFaceplateHeight, form.wallThickness>>

\* a wide bracket pair generated without rack holes: both ears are boxes
C10_Witness ==
  /\ loaded
  /\ ~form.addRackHoles
  /\ IsWideMesh(mountMesh)
  /\ \A b \in Brackets : \E i \in Kids(b, "ear") : b.children[i].prim = "box"

(***************************************************************************)
(* C11  Rack-ear holes: with addRackHoles ticked the ear of every bracket  *)
(* has exactly 3 * rackUnits holes, at y = u * 44.45 + 6.35, + 22.225 and  *)
(* + 38.1 mm for u = 0 .. rackUnits - 1, all at the horizontal centre of   *)
(* the ear, and every hole circle (radius 3.175 mm) lies inside the ear    *)
(* rectangle, which is faceplateHeight high.                               *)
(***************************************************************************)
C11_EarHoles ==
  (loaded /\ form.addRackHoles) =>
    \A b \in Brackets :
      \A i \in Kids(b, "ear") :
        LET c == b.children[i]
            offsets == <<Centi(635), Milli(22225), Centi(3810)>>
        IN  /\ Len(c.holes) = 3 * FormRackUnits
            /\ MinOf(OutlineYs(c)) = 0
            /\ MaxOf(OutlineYs(c)) = FormFaceplateHeight
            /\ \A u \in 0..(FormRackUnits - 1) :
                 \A k \in 1..3 :
                   /\ c.holes[3 * u + k][2] = u * Centi(4445) + offsets[k]
                   /\ 2 * c.holes[3 * u + k][1] = XMin(c) + XMax(c)
                   /\ c.holes[3 * u + k][3] = Milli(3175)
            /\ \A j \in DOMAIN c.holes : HoleInsideOutline(c, c.holes[j])

\* a two-unit ear with six holes, the last at 44.45 + 38.1 = 82.55 mm
C11_Witness ==
  /\ loaded
  /\ form.addRackHoles
  /\ FormRackUnits = 2
  /\ \E b \in Brackets :
       \E i \in Kids(b, "ear") :
         /\ Len(b.children[i].holes) = 6
         /\ b.children[i].holes[6][2] = Centi(8255)

(***************************************************************************)
(* C12  Joining-flange hole rows (as claimed): every emitted joining       *)
(* flange carries at least one hole Y position, each giving a front and a  *)
(* back hole.  In wide mode a flange over a span of at least 20 mm has     *)
(* floor(span / 20) positions evenly spaced between the 5 mm edge margins, *)
(* and a shorter one has one position at mid-span; the single-mode flange  *)
(* has max(2, floor(faceplateHeight / 30)) evenly spaced positions         *)
(* strictly inside its height.                                             *)
(***************************************************************************)
\* the hole Y positions of a flange: one per (front, back) pair of holes
HoleRows(c) == [j \in 1..(Len(c.holes) \div 2) |-> c.holes[2 * j][2]]

\* consecutive positions differ by the same step, up to the rounding of one unit
EvenlySpaced(ys) ==
  \A j \in 2..(Len(ys) - 1) :
    Abs((ys[j + 1] - ys[j]) - (ys[j] - ys[j - 1])) <= 1

C12_FlangeHoleRows ==
  loaded =>
    \A b \in Brackets :
      \A i \in Kids(b, "flange") :
        LET c == b.children[i]
            span == MaxOf(OutlineYs(c))
            ys == HoleRows(c)
        IN  /\ Len(c.holes) = 2 * Len(ys)
            /\ Len(ys) >= 1
            /\ \A j \in DOMAIN ys : c.holes[2 * j - 1][2] = ys[j]
            /\ EvenlySpaced(ys)
            /\ IF FormIsWide
               THEN IF span >= Mm(20)
                    THEN /\ Len(ys) = span \div Mm(20)
                         /\ \A j \in DOMAIN ys : ys[j] >= Mm(5) /\ ys[j] <= span - Mm(5)
                    ELSE /\ Len(ys) = 1
                         /\ ys[1] = Half(span)
               ELSE /\ Len(ys) = Max(2, FormFaceplateHeight \div Mm(30))
                    /\ Len(ys) >= 2
                    /\ \A j \in DOMAIN ys : ys[j] > 0 /\ ys[j] < span

(***************************************************************************)
(* C13  Opening by omission: without isBlank the faceplate of a bracket is *)
(* at most four boxes, named bottom, top, left and right; each of them is  *)
(* present exactly when its extent (openingY, faceplateHeight - openingY - *)
(* openingHeight, the local width left of the opening, the local width     *)
(* right of it) is strictly positive, and no faceplate box has a zero or   *)
(* negative dimension.                                                     *)
(***************************************************************************)
\* where the opening starts and ends in the coordinates of a bracket
LocalOpeningStart(side) ==
  IF side = "single" THEN Half(Mm(225) - FormOpeningWidth)
  ELSE IF side = "left" THEN Max(0, Half(Mm(450) - FormOpeningWidth))
  ELSE Max(0, Half(Mm(450) - FormOpeningWidth) - Mm(225))

LocalOpeningEnd(side) ==
  IF side = "single" THEN Half(Mm(225) - FormOpeningWidth) + FormOpeningWidth
  ELSE IF side = "left"
  THEN Min(Mm(225), Half(Mm(450) - FormOpeningWidth) + FormOpeningWidth)
  ELSE Min(Mm(225), Half(Mm(450) - FormOpeningWidth) + FormOpeningWidth - Mm(225))

FormOpeningY == Half(FormFaceplateHeight - FormOpeningHeight)

\* the extent the named faceplate piece of a bracket has to fill
PieceExtent(side, name) ==
  CASE name = "bottom" -> FormOpeningY
    [] name = "top" -> FormFaceplateHeight - FormOpeningY - FormOpeningHeight
    [] name = "left" -> LocalOpeningStart(side)
    [] name = "right" -> Mm(225) - LocalOpeningEnd(side)

C13_OpeningByOmission ==
  (loaded /\ ~form.isBlank) =>
    \A b \in Brackets :
      /\ Cardinality(Kids(b, "faceplate")) <= 4
      /\ \A i \in Kids(b, "faceplate") :
           LET c == b.children[i]
           IN  /\ c.prim = "box"
               /\ c.name \in {"bottom", "top", "left", "right"}
               /\ c.size[1] > 0 /\ c.size[2] > 0 /\ c.size[3] > 0
               /\ \A j \in Kids(b, "faceplate") : b.children[j].name = c.name => j = i
      /\ \A name \in {"bottom", "top", "left", "right"} :
           Named(b, "faceplate", name) # {} <=> PieceExtent(b.side, name) > 0

\* an opening taller than the faceplate: only the left and right pieces remain
C13_Witness ==
  /\ loaded
  /\ ~form.isBlank
  /\ FormOpeningY < 0
  /\ \E b \in Brackets :
       /\ Named(b, "faceplate", "bottom") = {}
       /\ Named(b, "faceplate", "top") = {}
       /\ Named(b, "faceplate", "left") # {}
       /\ Named(b, "faceplate", "right") # {}

(***************************************************************************)
(* C14  Wide-mode mirror symmetry: in wide mode the right half's feature   *)
(* list is the reflection of the left half's under x -> 225 - x: the same  *)
(* number of features, feature by feature of the same kind and primitive   *)
(* with equal dimensions, equal Y and Z placement, as many holes at the    *)
(* same heights, and mirrored X extents.                                   *)
(***************************************************************************)
MirrorName(c) ==
  IF c.kind = "faceplate" /\ c.name = "left" THEN "right"
  ELSE IF c.kind = "faceplate" /\ c.name = "right" THEN "left"
  ELSE c.name

IsMirrorOf(r, l) ==
  /\ r.kind = l.kind
  /\ r.prim = l.prim
  /\ r.name = MirrorName(l)
  /\ r.size = l.size
  /\ r.rot = l.rot
  /\ XMin(r) = Mm(225) - XMax(l)
  /\ XMax(r) = Mm(225) - XMin(l)
  /\ YMin(r) = YMin(l)
  /\ YMax(r) = YMax(l)
  /\ r.pos[3] = l.pos[3]
  /\ Len(r.outline) = Len(l.outline)
  /\ OutlineYs(r) = OutlineYs(l)
  /\ Len(r.holes) = Len(l.holes)
  /\ \A j \in DOMAIN l.holes :
       /\ r.holes[j][2] = l.holes[j][2]
       /\ r.holes[j][3] = l.holes[j][3]
       /\ r.holes[j][1] = IF l.rot = "none" THEN Mm(225) - l.holes[j][1]
                          ELSE l.holes[j][1]

C14_MirrorSymmetry ==
  (loaded /\ FormIsWide) =>
    LET lb == mountMesh.brackets[1]
        rb == mountMesh.brackets[2]
    IN  /\ Len(rb.children) = Len(lb.children)
        /\ \A i \in DOMAIN lb.children : IsMirrorOf(rb.children[i], lb.children[i])

\* a wide pair with a shelf, its outer gussets and flange gussets on both halves
C14_Witness ==
  /\ loaded
  /\ FormIsWide
  /\ ~form.isBlank
  /\ IsWideMesh(mountMesh)
  /\ \E l \in Named(mountMesh.brackets[1], "shelfGusset", "outer") :
       \E r \in Named(mountMesh.brackets[2], "shelfGusset", "outer") :
         XMin(r) = Mm(225) - XMax(l)
  /\ \E l \in Named(mountMesh.brackets[1], "flangeGusset", "bottom") :
       \E r \in Named(mountMesh.brackets[2], "flangeGusset", "bottom") :
         /\ XMax(l) = Mm(225) - form.flangeThickness
         /\ XMin(r) = form.flangeThickness

ValidDimensions(f) ==
  /\ f.deviceWidth > 0
  /\ f.deviceHeight > 0
  /\ f.deviceDepth > 0

C16_InvalidInputRejected ==
  (loaded /\ ~ValidDimensions(form)) => mountMesh # PreviewOf(form)

(***************************************************************************)
(* C17  Files of an export: an export request that has completed (its      *)
(* downloadSTLFromPreview has run and none of its timers is pending) has   *)
(* downloaded exactly the one file rack_mount_bracket.stl when it was made *)
(* in single mode, and exactly the two files rack_mount_bracket_left.stl   *)
(* and then rack_mount_bracket_right.stl when it was made in wide mode;    *)
(* the parts count the statistics showed when it was made is 1 or 2 and    *)
(* equal to that number of files, and the parts count shown is always the  *)
(* number of files an export of the current width and tolerance downloads. *)
(***************************************************************************)
\* the names of the files downloaded for request r, in order
FilesOf(r) ==
  LET own == SelectSeq(downloads, LAMBDA d : d.req = r)
  IN  [i \in DOMAIN own |-> own[i].name]

Completed(r) ==
  /\ requests[r].state = "exported"
  /\ \A t \in timers : t.req # r

FileXMin(e, b, c) == e.offset[1] + b.pos[1] + XMin(c)

FileXMax(e, b, c) == e.offset[1] + b.pos[1] + XMax(c)

FileYMin(e, b, c) == e.offset[2] + b.pos[2] + YMin(c)

FileYMax(e, b, c) == e.offset[2] + b.pos[2] + YMax(c)

\* the front face of a box, which is centred at its position
FileZFront(e, b, c) == e.offset[3] + b.pos[3] + c.pos[3] + Half(c.size[3])

IsBracketFile(x) ==
  x.name \in {"rack_mount_bracket_left.stl", "rack_mount_bracket_right.stl"}

SameFeatures(e, m) ==
  \A i \in DOMAIN e.brackets :
    \E j \in DOMAIN m.brackets :
      /\ m.brackets[j].side = e.brackets[i].side
      /\ m.brackets[j].children = e.brackets[i].children

C19_ExportMatchesPreview ==
  lastExport.name # "" =>
    /\ lastExport.stl.brackets # <<>>
    /\ SameFeatures(lastExport.stl, lastExport.preview)

(***************************************************************************)
(* C20  Documented threshold (as claimed): the two-bracket group is        *)
(* generated exactly when the opening width is greater than 185 mm, the    *)
(* 225 mm plate less a 40 mm margin.                                       *)
(***************************************************************************)
C20_DocumentedThreshold ==
  loaded => (IsWideMesh(mountMesh) <=> FormOpeningWidth > Mm(185))

(***************************************************************************)
(* C21  One canonical plan per input: whatever the form holds, the mode    *)
(* the generator built the preview group in is the mode of every other     *)
(* path that derives it, and with it the height per unit, the number of    *)
(* rack units and the faceplate height: the centring of the group, the     *)
(* placement of the device mesh, the statistics and the parts count, the   *)
(* wide-mode indicator, and, for every export request, the download path   *)
(* (the name of its first file) and the file list written by the submit    *)
(* handler.                                                                *)
(***************************************************************************)
\* the device mesh the scene holds
SceneDevices == {scene[i] : i \in {j \in DOMAIN scene : scene[j].name = "deviceMesh"}}

C21_OneCanonicalPlan ==
  /\ loaded =>
       LET wide == IsWideMesh(mountMesh)
           perUnit == IF wide THEN Mm(25) ELSE Mm(35)
       IN  /\ wide \/ IsSingleMesh(mountMesh)
           /\ \A b \in Brackets :
                /\ Kids(b, "ear") # {}
                /\ \A i \in Kids(b, "ear") :
                     LET faceplateHeight == EarHeightOf(b.children[i])
                     IN  /\ faceplateHeight = CeilDiv(form.deviceHeight, perUnit) * Centi(4445)
                         /\ mountMesh.pos[2] = -Half(faceplateHeight)
                         /\ DevicePlan(form).faceplateHeight = faceplateHeight
                         /\ StatsPlan(form).faceplateHeight = faceplateHeight
           /\ DevicePlan(form).isWide = wide
           /\ DevicePlan(form).perUnit = perUnit
           /\ StatsPlan(form) = DevicePlan(form)
           /\ SceneDevices = {DeviceMesh(form)}
           /\ partsValue = IF wide THEN 2 ELSE 1
           /\ wideModeIndicator = IF wide THEN "block" ELSE "none"
  /\ \A r \in DOMAIN requests :
       requests[r].state = "exported" =>
         /\ requests[r].wide = requests[r].shown
         /\ requests[r].parts = IF requests[r].shown THEN 2 ELSE 1
         /\ Len(FilesOf(r)) >= 1
         /\ FilesOf(r)[1] = IF requests[r].shown THEN "rack_mount_bracket_left.stl"
                            ELSE "rack_mount_bracket.stl"

\* a wide preview of a device 30 mm high, which needs two units at 25 mm a
\* unit and would need one at 35 mm, shown while an export made from it is on
\* record
C21_Witness ==
  /\ loaded
  /\ IsWideMesh(mountMesh)
  /\ form.deviceHeight = Mm(30)
  /\ CeilDiv(form.deviceHeight, Mm(25)) # CeilDiv(form.deviceHeight, Mm(35))
  /\ wideModeIndicator = "block"
  /\ \E r \in DOMAIN requests :
       /\ requests[r].state = "exported"
       /\ requests[r].shown
       /\ Len(FilesOf(r)) = 2

(***************************************************************************)
(* C22  Closure (as claimed): in the triangles of a generated bracket      *)
(* every edge of every triangle is shared by exactly one other triangle,   *)
(* which runs along it in the opposite direction.  The triangles looked at *)
(* are those of the boxes of the bracket (the faceplate pieces, the shelf, *)
(* a solid ear); an edge that more than two of them share is shared by     *)
(* more than two triangles of the whole bracket.                           *)
(***************************************************************************)
\* a corner of the box c, in half units: the centre plus or minus half the size
BoxCorner(c, sx, sy, sz) ==
  <<2 * c.pos[1] + sx * c.size[1], 2 * c.pos[2] + sy * c.size[2],
    2 * c.pos[3] + sz * c.size[3]>>

\* the four corners of the face of c on the side s of the axis, counter-clockwise
\* seen from outside
BoxFace(c, axis, s) ==
  LET q(u, v) == IF axis = 1 THEN BoxCorner(c, s, u, v)
                 ELSE IF axis = 2 THEN BoxCorner(c, v, s, u)
                 ELSE BoxCorner(c, u, v, s)
  IN  IF s = 1 THEN <<q(-1, -1), q(1, -1), q(1, 1), q(-1, 1)>>
      ELSE <<q(-1, 1), q(1, 1), q(1, -1), q(-1, -1)>>

\* the twelve triangles of a BoxGeometry: two to a face, wound outwards
BoxTriangles(c) ==
  UNION {LET r == BoxFace(c, axis, s)
         IN  {<<r[1], r[2], r[3]>>, <<r[1], r[3], r[4]>>} : axis \in 1..3, s \in {-1, 1}}

\* the triangles of the boxes of bracket b, each with the index of its mesh
BracketBoxTriangles(b) ==
  UNION {{<<i, t>> : t \in BoxTriangles(b.children[i])} :
           i \in {j \in DOMAIN b.children : b.children[j].prim = "box"}}

\* the directed edges of a triangle
EdgesOf(t) == {<<t[1], t[2]>>, <<t[2], t[3]>>, <<t[3], t[1]>>}

C22_Watertight ==
  loaded =>
    \A b \in Brackets :
      LET T == BracketBoxTriangles(b)
      IN  \A t \in T :
            \A e \in EdgesOf(t[2]) :
              LET back == <<e[2], e[1]>>
                  sharing == {u \in T \ {t} : e \in EdgesOf(u[2]) \/ back \in EdgesOf(u[2])}
              IN  /\ Cardinality(sharing) = 1
                  /\ \A u \in sharing : back \in EdgesOf(u[2])

(***************************************************************************)
(* C23  Scene after any event sequence: once the page has loaded, after    *)
(* any sequence of input events, flag and ear-side changes and form resets *)
(* the scene holds exactly one bracket group, which is the group stored in *)
(* mountMesh and is built from the values now in the form, and exactly one *)
(* device mesh, built from the values now in the form; nothing built from  *)
(* earlier values is left, and the grid and the two lights of initScene    *)
(* are all else the scene holds.                                           *)
(***************************************************************************)
\* the bracket groups the scene holds, with their positions in it
SceneGroups == {i \in DOMAIN scene : scene[i].type = "Group"}

\* the meshes named deviceMesh the scene holds, with their positions in it
SceneDeviceMeshes == {i \in DOMAIN scene : scene[i].name = "deviceMesh"}

C23_OneGroupOneDevice ==
  loaded =>
    /\ Cardinality(SceneGroups) = 1
    /\ \A i \in SceneGroups : scene[i].body = mountMesh /\ scene[i].body = PreviewOf(form)
    /\ Cardinality(SceneDeviceMeshes) = 1
    /\ \A i \in SceneDeviceMeshes : scene[i] = DeviceMesh(form)
    /\ Len(scene) = Len(initScene) + 2

\* the form has been edited away from the values the page loaded with, so the
\* group and the device mesh of the load have been replaced
C23_Witness ==
  /\ loaded
  /\ form.deviceWidth = Mm(210)
  /\ form.deviceHeight = Mm(25)
  /\ PreviewOf(form) # PreviewOf(defaults)
  /\ DeviceMesh(form) # DeviceMesh(defaults)
  /\ \E i \in SceneGroups : IsWideMesh(scene[i].body)
  /\ \E i \in SceneDeviceMeshes : scene[i].body.size[1] = Mm(210)

(***************************************************************************)
(* C24  Wide-mode export snapshot (as claimed): every file downloaded by a *)
(* wide-mode export request, the left half written at once and the right   *)
(* half written by the 500 ms timer, is generated from the values the form *)
(* held when downloadSTLFromPreview was called for the request, whatever   *)
(* input events and resets come between the two downloads.                 *)
(***************************************************************************)
C24_WideExportSnapshot ==
  \A r \in DOMAIN requests :
    requests[r].wide =>
      \A i \in DOMAIN downloads :
        downloads[i].req = r => downloads[i].asRequested

(***************************************************************************)
(* C25  Export status (as claimed): while the status line shows the        *)
(* success message, the file list is displayed and the export of the       *)
(* submit that wrote the message has produced every file of the request:   *)
(* one file in single mode, both halves in wide mode.                      *)
(***************************************************************************)
\* the submits whose handler has run to its end
SubmitsDone == {r \in DOMAIN requests : requests[r].by = "submit" /\ requests[r].state = "exported"}

C25_SuccessOnlyWhenExported ==
  statusMessage = "success" =>
    /\ filesContainer = "block"
    /\ SubmitsDone # {}
    /\ LET r == CHOOSE q \in SubmitsDone : \A p \in SubmitsDone : p <= q
       IN  FilesOf(r) = IF requests[r].wide
                        THEN <<"rack_mount_bracket_left.stl", "rack_mount_bracket_right.stl">>
                        ELSE <<"rack_mount_bracket.stl">>

(***************************************************************************)
(* C26  Single-mode export origin (as claimed): in the file written by     *)
(* exportSTL the faceplate has its corner at the origin: its pieces span   *)
(* x from 0 to 225 and y from 0 to the faceplate height between them, and  *)
(* the centring of the preview group (-112.5, -faceplateHeight/2) is not   *)
(* in the file.                                                            *)
(***************************************************************************)
C26_SingleExportOrigin ==
  lastExport.name = "rack_mount_bracket.stl" =>
    LET e == lastExport.stl
    IN  \A i \in DOMAIN e.brackets :
          LET b == e.brackets[i]
              pieces == {b.children[j] : j \in Kids(b, "faceplate")}
              faceplateHeight == MaxOf({EarHeightOf(b.children[j]) : j \in Kids(b, "ear")})
          IN  /\ pieces # {}
              /\ MinOf({FileXMin(e, b, c) : c \in pieces}) = 0
              /\ MaxOf({FileXMax(e, b, c) : c \in pieces}) = Mm(225)
              /\ MinOf({FileYMin(e, b, c) : c \in pieces}) = 0
              /\ MaxOf({FileYMax(e, b, c) : c \in pieces}) = faceplateHeight

(***************************************************************************)
(* C27  Wide-mode opening slices: in wide mode, without isBlank, the part  *)
(* of the faceplate each half leaves open between its side pieces ends at  *)
(* the joining edge in the left half (local x = 225) and starts at it in   *)
(* the right half (local x = 0); in full-width coordinates the two parts   *)
(* meet at 225 and together are the full opening clipped to [0, 450]; so   *)
(* the left half has no piece right of the opening and the right half none *)
(* left of it.                                                             *)
(***************************************************************************)
\* where the part left open by the side pieces of bracket b starts and ends
SliceStart(b) ==
  IF Named(b, "faceplate", "left") = {} THEN 0
  ELSE MaxOf({XMax(c) : c \in Named(b, "faceplate", "left")})

SliceEnd(b) ==
  IF Named(b, "faceplate", "right") = {} THEN Mm(225)
  ELSE MinOf({XMin(c) : c \in Named(b, "faceplate", "right")})

C27_OpeningSlices ==
  (loaded /\ IsWideMesh(mountMesh) /\ ~form.isBlank) =>
    LET left == mountMesh.brackets[1]
        right == mountMesh.brackets[2]
        fullOpeningX == Half(Mm(450) - FormOpeningWidth)
    IN  /\ SliceEnd(left) = Mm(225)
        /\ SliceStart(right) = 0
        /\ Named(left, "faceplate", "right") = {}
        /\ Named(right, "faceplate", "left") = {}
        /\ SliceStart(left) = Max(0, fullOpeningX)
        /\ Mm(225) + SliceEnd(right) = Min(Mm(450), fullOpeningX + FormOpeningWidth)
        /\ \A c \in Named(left, "faceplate", "left") : XMin(c) = 0
        /\ \A c \in Named(right, "faceplate", "right") : XMax(c) = Mm(225)

\* a 214 mm opening: the left half keeps a piece from 0 to 118, the right half
\* one from 107 to 225, and neither has a piece at the joining edge
C27_Witness ==
  /\ loaded
  /\ IsWideMesh(mountMesh)
  /\ ~form.isBlank
  /\ FormOpeningWidth = Mm(214)
  /\ \E c \in Named(mountMesh.brackets[1], "faceplate", "left") : XMax(c) = Mm(118)
  /\ \E c \in Named(mountMesh.brackets[2], "faceplate", "right") : XMin(c) = Mm(107)
  /\ Named(mountMesh.brackets[1], "faceplate", "right") = {}
  /\ Named(mountMesh.brackets[2], "faceplate", "left") = {}

(***************************************************************************)
(* C28  Opening inside faceplate (as claimed): for a form with positive    *)
(* device dimensions and a tolerance of zero or more, the opening lies     *)
(* within the faceplate (openingY >= 0, openingY + openingHeight <=        *)
(* faceplateHeight, and in single mode openingX >= 0), and every faceplate *)
(* piece of every bracket lies within x in [0, 225] and y in               *)
(* [0, faceplateHeight].                                                   *)
(***************************************************************************)
C28_OpeningInsideFaceplate ==
  (loaded /\ ValidDimensions(form) /\ form.tolerance >= 0) =>
    /\ FormOpeningY >= 0
    /\ FormOpeningY + FormOpeningHeight <= FormFaceplateHeight
    /\ IsSingleMesh(mountMesh) => LocalOpeningStart("single") >= 0
    /\ \A b \in Brackets :
         \A i \in Kids(b, "faceplate") :
           LET c == b.children[i]
           IN  /\ XMin(c) >= 0 /\ XMax(c) <= Mm(225)
               /\ YMin(c) >= 0 /\ YMax(c) <= FormFaceplateHeight

(***************************************************************************)
(* C29  Shelf inside faceplate width (as claimed): whenever a support      *)
(* shelf is generated, the shelf and its gussets lie within x in [0, 225]  *)
(* of their bracket, in single mode and in either half in wide mode.       *)
(***************************************************************************)
C29_ShelfInsideFaceplate ==
  loaded =>
    \A b \in Brackets :
      \A i \in Kids(b, "shelf") \cup Kids(b, "shelfGusset") :
        /\ XMin(b.children[i]) >= 0
        /\ XMax(b.children[i]) <= Mm(225)

(***************************************************************************)
(* C30  Single-mode ear-side mirroring (as claimed): the single bracket    *)
(* generated with the ear on the right is, feature by feature, the single  *)
(* bracket generated from the same form with the ear on the left with its  *)
(* ear, joining flange and two flange gussets reflected under              *)
(* x -> 225 - x and every other feature unchanged; on either side the      *)
(* gussets start at the face of the flange that looks into the plate.      *)
(***************************************************************************)
\* the flange gussets of bracket b start at the inner face of its flange
GussetsAtFlangeFace(b, earSide) ==
  \A i \in Kids(b, "flangeGusset") :
    \A j \in Kids(b, "flange") :
      IF earSide = "left" THEN XMax(b.children[i]) = XMin(b.children[j])
      ELSE XMin(b.children[i]) = XMax(b.children[j])

C30_EarSideMirror ==
  (loaded /\ IsSingleMesh(mountMesh) /\ form.earSide = "right") =>
    LET rb == mountMesh.brackets[1]
        lb == PreviewOf([form EXCEPT !.earSide = "left"]).brackets[1]
    IN  /\ Len(rb.children) = Len(lb.children)
        /\ \A i \in DOMAIN lb.children :
             IF lb.children[i].kind \in {"ear", "flange", "flangeGusset"}
             THEN IsMirrorOf(rb.children[i], lb.children[i])
             ELSE rb.children[i] = lb.children[i]
        /\ GussetsAtFlangeFace(lb, "left")
        /\ GussetsAtFlangeFace(rb, "right")

====
